---- MODULE Spec2Model ----
(***************************************************************************)
(* Model of src/src/signals/proxies.ts: the proxy store (proxies,          *)
(* proxyProviders, proxyNodeMap, latencyMap), the four busy maps kept by   *)
(* useStringBooleanMap, and the asynchronous operations of useProxies().   *)
(* JavaScript runs one task at a time: an action is one task, i.e. an      *)
(* invocation up to its first await, or the arrival of a remote response   *)
(* together with every continuation it makes runnable.                     *)
(*                                                                         *)
(* Specifications:                                                         *)
(*   Spec         refreshes and the four guarded operations                *)
(*   SpecAll      refreshes and updateAllProvider                          *)
(*   SpecSelect   refreshes, selectProxyInGroup and the signals it reads   *)
(*   SpecSorted   one refresh over every key order and GLOBAL member list  *)
(*   SpecResolve  getNowProxyNodeName over every small node index          *)
(*   SpecLatency  getLatencyFromProxy over every small sample history      *)
(***************************************************************************)
EXTENDS Integers, Sequences, FiniteSets, TLC

VARIABLES
    proxies,                        \* signal proxies (line 56)
    proxyProviders,                 \* signal proxyProviders (line 57)
    latencyMap,                     \* signal latencyMap (line 62)
    proxyNodeMap,                   \* signal proxyNodeMap (line 63)
    proxyLatencyTestingMap,         \* busy map, node latency tests (line 40)
    proxyGroupLatencyTestingMap,    \* busy map, group latency tests (line 44)
    proxyProviderLatencyTestingMap, \* busy map, provider health checks (line 48)
    updatingMap,                    \* busy map, provider updates (line 51)
    isAllProviderUpdating,          \* signal isAllProviderUpdating (line 53)
    autoCloseConns,                 \* signal autoCloseConns() (line 160)
    latestConnectionMsg,            \* latestConnectionMsg()?.connections (165)
    probe,                          \* argument and result of a function call
    calls                           \* the invocations made so far, in order

vars == <<proxies, proxyProviders, latencyMap, proxyNodeMap,
          proxyLatencyTestingMap, proxyGroupLatencyTestingMap,
          proxyProviderLatencyTestingMap, updatingMap, isAllProviderUpdating,
          autoCloseConns, latestConnectionMsg, probe, calls>>

snapshot == <<proxies, proxyProviders, latencyMap, proxyNodeMap>>

busyMaps == <<proxyLatencyTestingMap, proxyGroupLatencyTestingMap,
              proxyProviderLatencyTestingMap, updatingMap,
              isAllProviderUpdating>>

\* what no operation of the store writes: the signals of other modules it
\* reads, and the probe of the function specifications
env == <<autoCloseConns, latestConnectionMsg, probe>>

----------------------------------------------------------------------------
(* Bounds *)

\* number of invocations of store operations in one behaviour
MaxCalls == 2

\* length of the member list of GLOBAL in the payloads of the sort
MaxRanked == 2

\* number of samples in history and in extra[url]
MaxSamples == 2

----------------------------------------------------------------------------
(* Configuration signals and remote data *)

\* latencyQualityMap().NOT_CONNECTED, the sentinel of lines 83, 86, 199
NOT_CONNECTED == 0 - 1

\* urlForLatencyTest(), the configured test URL (lines 109, 188)
urlForLatencyTest == "u1"

EmptyMap == [k \in {} |-> 0]

NoExtra == EmptyMap

\* a node as the engine reports it (type Proxy / ProxyNode); history and
\* extra[url] are sequences of delays, most recent last
Node(name, type, now, all, history, extra) ==
    [name |-> name, type |-> type, udp |-> TRUE, xudp |-> FALSE, tfo |-> FALSE,
     now |-> now, all |-> all, history |-> history, extra |-> extra]

\* the payloads fetchProxiesAPI() can resolve with: the proxies object as the
\* sequence of its values in key order (every key is the entry's name)
ProxiesResponses ==
    << << Node("GLOBAL", "Selector", "G", <<"G", "A">>, <<>>, NoExtra),
          Node("G", "Selector", "A", <<"A", "B">>, <<>>, NoExtra),
          Node("A", "Shadowsocks", "", <<>>, <<30>>, [u \in {"u1"} |-> <<40>>]),
          Node("B", "Shadowsocks", "", <<>>, <<>>, NoExtra) >>,
       << Node("H", "URLTest", "H", <<"B">>, <<70>>, NoExtra),
          Node("GLOBAL", "Selector", "G", <<"G">>, <<>>, NoExtra),
          Node("G", "Selector", "B", <<"B">>, <<>>, NoExtra),
          Node("B", "Shadowsocks", "", <<>>, <<60>>, [u \in {"u1"} |-> <<0>>]) >> >>

\* the payloads fetchProxyProvidersAPI() can resolve with, likewise
ProvidersResponses ==
    << << [name |-> "default", vehicleType |-> "Compatible",
           proxies |-> << Node("A", "Shadowsocks", "", <<>>, <<30>>, NoExtra),
                          Node("D", "Shadowsocks", "", <<>>, <<50>>, NoExtra) >>],
          [name |-> "P1", vehicleType |-> "HTTP",
           proxies |-> << Node("N", "Vmess", "", <<>>, <<20>>, NoExtra),
                          Node("A", "Vmess", "", <<>>, <<99>>, NoExtra) >>] >>,
       << [name |-> "P1", vehicleType |-> "HTTP",
           proxies |-> << Node("M", "Vmess", "", <<>>, <<>>,
                               [u \in {"u2"} |-> <<80>>]) >>],
          [name |-> "P2", vehicleType |-> "Compatible",
           proxies |-> << Node("E", "Trojan", "", <<>>, <<45>>, NoExtra) >>],
          [name |-> "P3", vehicleType |-> "File",
           proxies |-> << Node("B", "Trojan", "", <<>>, <<5>>, NoExtra) >>] >> >>

ProxiesIdx == 1..Len(ProxiesResponses)
ProvidersIdx == 1..Len(ProvidersResponses)

\* arguments the operations are invoked with
ProxyNames == {"G", "X"}
GroupNames == {"G"}
ProviderNames == {"P1"}

\* delays proxyLatencyTestAPI can resolve with
TestDelays == {15, 25}

----------------------------------------------------------------------------
(* Sequence helpers *)

\* Array.prototype.indexOf: zero-based position of the first match, else -1
indexOf(s, x) ==
    IF \E i \in 1..Len(s) : s[i] = x
    THEN (CHOOSE i \in 1..Len(s) : s[i] = x /\ \A j \in 1..(i - 1) : s[j] # x) - 1
    ELSE 0 - 1

Names(s) == {s[i].name : i \in 1..Len(s)}

\* Array.prototype.at(-1)
Last(s) == s[Len(s)]

\* { ...map, [name]: value }
MapSet(map, name, value) ==
    [k \in DOMAIN map \cup {name} |-> IF k = name THEN value ELSE map[k]]

----------------------------------------------------------------------------
(* getLatencyFromProxy, lines 67-87 *)

\* Mutant: the last sample of extra[url] is returned whatever its delay
getLatencyFromProxyAnySample(proxy, url, fallbackDefault) ==
    IF url \in DOMAIN proxy.extra /\ proxy.extra[url] # <<>>
    THEN Last(proxy.extra[url])
    ELSE IF ~fallbackDefault THEN NOT_CONNECTED
    ELSE IF proxy.history # <<>> THEN Last(proxy.history)
    ELSE NOT_CONNECTED

getLatencyFromProxy(proxy, url, fallbackDefault) ==
    LET hasExtra == url \in DOMAIN proxy.extra
        extra    == proxy.extra[url]
        \* extra.at(-1)?.delay is undefined for an empty array; `if (delay)`
        \* takes every number but 0
        truthy   == hasExtra /\ extra # <<>> /\ Last(extra) # 0
    IN  IF truthy THEN Last(extra)
        ELSE IF ~fallbackDefault THEN NOT_CONNECTED
        ELSE IF proxy.history # <<>> THEN Last(proxy.history)
        ELSE NOT_CONNECTED

----------------------------------------------------------------------------
(* setProxiesInfo, lines 89-116 *)

\* the ProxyInfo written at lines 98-107; a top-level proxy carries no
\* provider field, so the default '' of line 96 applies
ProxyInfo(proxy) ==
    [udp |-> proxy.udp, xudp |-> proxy.xudp, type |-> proxy.type,
     latency |-> proxy.now, latencyTestHistory |-> proxy.history,
     name |-> proxy.name, tfo |-> proxy.tfo,
     provider |-> IF "provider" \in DOMAIN proxy THEN proxy.provider ELSE ""]

\* forEach of lines 95-110 over the copy of proxyNodeMap() made at line 92
RECURSIVE newProxyNodeMap(_, _)
newProxyNodeMap(old, list) ==
    IF list = <<>> THEN old
    ELSE newProxyNodeMap(MapSet(old, Head(list).name, ProxyInfo(Head(list))),
                         Tail(list))

\* forEach of lines 95-110 over the copy of latencyMap() made at line 93
RECURSIVE newLatencyMap(_, _)
newLatencyMap(old, list) ==
    IF list = <<>> THEN old
    ELSE newLatencyMap(
             MapSet(old, Head(list).name,
                    getLatencyFromProxy(Head(list), urlForLatencyTest, TRUE)),
             Tail(list))

----------------------------------------------------------------------------
(* The pure part of fetchProxies, lines 125-147 *)

\* Mutant: GLOBAL is ranked first
sortIndexGlobalFirst(resp) ==
    LET global == CHOOSE i \in 1..Len(resp) : resp[i].name = "GLOBAL"
    IN  <<"GLOBAL">> \o resp[global].all

\* line 125
sortIndex(resp) ==
    LET global == CHOOSE i \in 1..Len(resp) : resp[i].name = "GLOBAL"
    IN  resp[global].all \o <<"GLOBAL">>

\* Array.prototype.sort with the comparator of lines 129-130: a stable sort
\* by indexOf in sortIndex
RECURSIVE InsertByRank(_, _, _)
InsertByRank(sorted, x, idx) ==
    IF sorted = <<>> THEN <<x>>
    ELSE IF indexOf(idx, Last(sorted).name) - indexOf(idx, x.name) > 0
         THEN InsertByRank(SubSeq(sorted, 1, Len(sorted) - 1), x, idx)
                  \o <<Last(sorted)>>
         ELSE sorted \o <<x>>

RECURSIVE SortByRank(_, _)
SortByRank(s, idx) ==
    IF s = <<>> THEN <<>>
    ELSE InsertByRank(SortByRank(SubSeq(s, 1, Len(s) - 1), idx), Last(s), idx)

\* lines 126-131
sortedProxies(resp) ==
    SortByRank(SelectSeq(resp, LAMBDA proxy : Len(proxy.all) # 0),
               sortIndex(resp))

\* lines 132-135
sortedProviders(provs) ==
    SelectSeq(provs, LAMBDA provider :
        provider.name # "default" /\ provider.vehicleType # "Compatible")

\* Mutant: every node of the provider is taken, tagged
providerNodesUnfiltered(provider, resp) ==
    [i \in 1..Len(provider.proxies) |->
        [f \in DOMAIN provider.proxies[i] \cup {"provider"} |->
            IF f = "provider" THEN provider.name ELSE provider.proxies[i][f]]]

\* lines 140-145: one provider's nodes that are no top-level proxy, tagged
providerNodes(provider, resp) ==
    LET kept == SelectSeq(provider.proxies,
                          LAMBDA proxy : proxy.name \notin Names(resp))
    IN  [i \in 1..Len(kept) |->
            [f \in DOMAIN kept[i] \cup {"provider"} |->
                IF f = "provider" THEN provider.name ELSE kept[i][f]]]

RECURSIVE flatMapProviders(_, _)
flatMapProviders(provs, resp) ==
    IF provs = <<>> THEN <<>>
    ELSE providerNodes(Head(provs), resp) \o flatMapProviders(Tail(provs), resp)

\* Mutant: the nodes of every fetched provider are flattened
allProxiesOfEveryProvider(provs, resp) ==
    resp \o flatMapProviders(provs, resp)

\* lines 137-147
allProxies(provs, resp) ==
    resp \o flatMapProviders(sortedProviders(provs), resp)

----------------------------------------------------------------------------
(* getNowProxyNodeName, lines 246-264 *)

\* Mutant: a pointer to a node absent from the index is returned
RECURSIVE followNowToMissing(_, _, _)
followNowToMissing(map, node, fuel) ==
    IF node.latency # "" /\ node.latency # node.name
    THEN IF node.latency \notin DOMAIN map THEN node.latency
         ELSE IF fuel = 0 THEN ""
         ELSE followNowToMissing(map, map[node.latency], fuel - 1)
    ELSE node.name

\* the while loop of lines 253-261; it does not end on a cycle of pointers,
\* which the result "" stands for once every node has been visited
RECURSIVE followNow(_, _, _)
followNow(map, node, fuel) ==
    IF node.latency # "" /\ node.latency # node.name
    THEN IF node.latency \notin DOMAIN map THEN node.name
         ELSE IF fuel = 0 THEN ""
         ELSE followNow(map, map[node.latency], fuel - 1)
    ELSE node.name

getNowProxyNodeName(name) ==
    IF name = "" \/ name \notin DOMAIN proxyNodeMap THEN name
    ELSE followNow(proxyNodeMap, proxyNodeMap[name],
                   Cardinality(DOMAIN proxyNodeMap))

\* the call does not return: the loop of lines 253-261 runs for ever
Hangs(name) == name # "" /\ getNowProxyNodeName(name) = ""

\* lines 266-268; undefined is modelled as NOT_CONNECTED - 1
getLatencyByName(name) ==
    LET node == getNowProxyNodeName(name)
    IN  IF node \in DOMAIN latencyMap THEN latencyMap[node] ELSE NOT_CONNECTED - 1

----------------------------------------------------------------------------
(* useStringBooleanMap, imported at line 11 and used at lines 39-52 *)

\* set(name, value) on one busy map
set(map, name, value) == MapSet(map, name, value)

\* Mutant: the provider health check registers its key in updatingMap
GuardOfHealthInUpdating(kind) ==
    CASE kind = "proxyLatencyTest" -> "proxyLatencyTestingMap"
      [] kind = "proxyGroupLatencyTest" -> "proxyGroupLatencyTestingMap"
      [] kind = "updateProviderByProviderName" -> "updatingMap"
      [] kind = "proxyProviderLatencyTest" -> "updatingMap"
      [] OTHER -> ""

\* Mutant: the group latency test registers its key in the node tests' map
GuardOfGroupInNode(kind) ==
    CASE kind = "proxyLatencyTest" -> "proxyLatencyTestingMap"
      [] kind = "proxyGroupLatencyTest" -> "proxyLatencyTestingMap"
      [] kind = "updateProviderByProviderName" -> "updatingMap"
      [] kind = "proxyProviderLatencyTest" -> "proxyProviderLatencyTestingMap"
      [] OTHER -> ""

\* the busy map each guarded operation registers its key in
\* (lines 183, 206, 217, 241)
GuardOf(kind) ==
    CASE kind = "proxyLatencyTest" -> "proxyLatencyTestingMap"
      [] kind = "proxyGroupLatencyTest" -> "proxyGroupLatencyTestingMap"
      [] kind = "updateProviderByProviderName" -> "updatingMap"
      [] kind = "proxyProviderLatencyTest" -> "proxyProviderLatencyTestingMap"
      [] OTHER -> ""

\* whether the operation hands the promise of setWithCallback to its caller:
\* the arrow functions of lines 216-217 and 240-241 return it, the async
\* bodies of lines 180-203 and 205-214 neither return nor await it
ReturnsGuard(kind) ==
    kind \in {"updateProviderByProviderName", "proxyProviderLatencyTest"}

GuardedKinds ==
    {"proxyLatencyTest", "proxyGroupLatencyTest",
     "updateProviderByProviderName", "proxyProviderLatencyTest"}

\* one busy map gets name := value, the other three stay
SetBusy(mapName, name, value) ==
    /\ proxyLatencyTestingMap' =
           IF mapName = "proxyLatencyTestingMap"
           THEN set(proxyLatencyTestingMap, name, value)
           ELSE proxyLatencyTestingMap
    /\ proxyGroupLatencyTestingMap' =
           IF mapName = "proxyGroupLatencyTestingMap"
           THEN set(proxyGroupLatencyTestingMap, name, value)
           ELSE proxyGroupLatencyTestingMap
    /\ updatingMap' =
           IF mapName = "updatingMap"
           THEN set(updatingMap, name, value)
           ELSE updatingMap
    /\ proxyProviderLatencyTestingMap' =
           IF mapName = "proxyProviderLatencyTestingMap"
           THEN set(proxyProviderLatencyTestingMap, name, value)
           ELSE proxyProviderLatencyTestingMap
    /\ UNCHANGED isAllProviderUpdating

----------------------------------------------------------------------------
(* Invocations *)

\* One invocation of a store operation.
\*   pc      the await it is suspended at: "remote" (its own API call),
\*           "fetch" (the Promise.all of line 120), or "done"
\*   key     the name it registered in its busy map
\*   remote  how its own API call settled
\*   fetched how the Promise.all of line 120 settled
\*   gotProviders, gotProxies
\*           the payload each fetch of line 120 resolved with, 0 while pending
\*   guard   the promise of setWithCallback
\*   pending the providers whose updateProxyProviderAPI call of line 231
\*           has not settled
\*   closed  the ids it has called closeSingleConnectionAPI with, in order
\*   result  the promise the caller of the operation holds
Call(kind, arg, key, pc, guard, result) ==
    [kind |-> kind, arg |-> arg, key |-> key, pc |-> pc, remote |-> "pending",
     fetched |-> "pending", gotProviders |-> 0, gotProxies |-> 0,
     guard |-> guard, result |-> result, pending |-> {}, closed |-> <<>>]

Ids == 1..Len(calls)

\* setWithCallback(name, callback): the marker is set and the callback runs
\* to its first await, whatever the marker was before
setWithCallback(kind, arg, name) ==
    /\ SetBusy(GuardOf(kind), name, TRUE)
    /\ calls' = Append(calls,
           Call(kind, arg, name, "remote", "pending",
                IF ReturnsGuard(kind) THEN "pending" ELSE "fulfilled"))

\* Mutant: the marker is cleared only when no other call of the operation
\* for the key is still in flight
settleGuardCounted(c, now, outcome) ==
    /\ IF \E d \in 1..Len(calls) :
              /\ d # c
              /\ calls[d].kind = calls[c].kind
              /\ calls[d].key = calls[c].key
              /\ calls[d].pc # "done"
       THEN UNCHANGED busyMaps
       ELSE SetBusy(GuardOf(calls[c].kind), calls[c].key, FALSE)
    /\ calls' = [calls EXCEPT ![c] =
           [now EXCEPT
               !.pc = "done", !.guard = outcome,
               !.result = IF ReturnsGuard(calls[c].kind) THEN outcome ELSE @]]

\* the callback of call c has settled with outcome, its call record being
\* now: setWithCallback clears the marker and settles its own promise the
\* same way
settleGuard(c, now, outcome) ==
    /\ SetBusy(GuardOf(calls[c].kind), calls[c].key, FALSE)
    /\ calls' = [calls EXCEPT ![c] =
           [now EXCEPT
               !.pc = "done", !.guard = outcome,
               !.result = IF ReturnsGuard(calls[c].kind) THEN outcome ELSE @]]

Outcome(how) == IF how = "ok" THEN "fulfilled" ELSE "rejected"

\* restructRawMsgToConnection(connections, []): every raw connection
\* becomes a connection of the same id and chains, its speeds computed
\* against the empty previous list
restructRawMsgToConnection(raw) ==
    [i \in 1..Len(raw) |->
        [id |-> raw[i].id, chains |-> raw[i].chains,
         download |-> raw[i].download, upload |-> raw[i].upload,
         downloadSpeed |-> 0, uploadSpeed |-> 0]]

\* Array.prototype.includes
includes(s, x) == \E i \in 1..Len(s) : s[i] = x

\* Mutant: the connections are closed whatever the auto-close setting
closeConnsAlways(name) ==
    LET activeConns == restructRawMsgToConnection(latestConnectionMsg)
        hit == SelectSeq(activeConns, LAMBDA conn : includes(conn.chains, name))
    IN  [i \in 1..Len(hit) |-> hit[i].id]

\* lines 160-177: the ids closeSingleConnectionAPI is called with, in order
closeConns(name) ==
    IF autoCloseConns
    THEN LET activeConns == restructRawMsgToConnection(latestConnectionMsg)
             hit == SelectSeq(activeConns,
                              LAMBDA conn : includes(conn.chains, name))
         IN  [i \in 1..Len(hit) |-> hit[i].id]
    ELSE <<>>

\* Mutant: the flag is cleared only when the refresh succeeded
finallyOnSuccess(how) ==
    isAllProviderUpdating' = IF how = "ok" THEN FALSE ELSE isAllProviderUpdating

\* the finally block of lines 235-237
finally(how) == isAllProviderUpdating' = FALSE

\* fetchProxies() of call c has settled; what awaits it goes on: the caller
\* of a direct call, the finally block of updateAllProvider (line 236), or
\* the callback of a guarded operation
afterFetch(c, how) ==
    LET now == [calls[c] EXCEPT
                   !.fetched = how, !.gotProviders = 0, !.gotProxies = 0]
    IN  CASE calls[c].kind = "fetchProxies" ->
                 /\ calls' = [calls EXCEPT ![c] =
                        [now EXCEPT !.pc = "done", !.result = Outcome(how)]]
                 /\ UNCHANGED busyMaps
          [] calls[c].kind = "updateAllProvider" ->
                 /\ calls' = [calls EXCEPT ![c] =
                        [now EXCEPT !.pc = "done", !.result = Outcome(how)]]
                 /\ finally(how)
                 /\ UNCHANGED <<proxyLatencyTestingMap,
                                proxyGroupLatencyTestingMap,
                                proxyProviderLatencyTestingMap, updatingMap>>
          [] calls[c].kind = "selectProxyInGroup" ->
                 /\ calls' = [calls EXCEPT ![c] =
                        [now EXCEPT
                            !.pc = "done", !.result = Outcome(how),
                            !.closed = IF how = "ok"
                                       THEN closeConns(calls[c].arg)
                                       ELSE <<>>]]
                 /\ UNCHANGED busyMaps
          [] OTHER -> settleGuard(c, now, Outcome(how))

\* the own API call of c has settled and the callback goes on to
\* `await fetchProxies()` (lines 212, 223, 243)
thenFetch(c, how) ==
    /\ calls' = [calls EXCEPT ![c].pc = "fetch", ![c].remote = how]
    /\ UNCHANGED <<snapshot, busyMaps>>

----------------------------------------------------------------------------
(* fetchProxies, lines 119-154 *)

\* Mutant: setProxiesInfo starts from empty maps
spreadNothing(map) == EmptyMap

\* { ...proxyNodeMap() } and { ...latencyMap() }, lines 92-93: setProxiesInfo
\* starts from a copy of the current map
spread(map) == map

\* Mutant: the batch of setProxiesInfo publishes the node index only
PublishIndexOnly(provs, resp) ==
    /\ proxies' = sortedProxies(resp)
    /\ proxyProviders' = sortedProviders(provs)
    /\ proxyNodeMap' =
           newProxyNodeMap(spread(proxyNodeMap), allProxies(provs, resp))
    /\ UNCHANGED latencyMap

\* Mutant: proxies and providers are published, the node maps are not
PublishTorn(provs, resp) ==
    /\ proxies' = sortedProxies(resp)
    /\ proxyProviders' = sortedProviders(provs)
    /\ UNCHANGED <<proxyNodeMap, latencyMap>>

\* the batch of lines 149-153, with setProxiesInfo's own batch (112-115)
Publish(provs, resp) ==
    /\ proxies' = sortedProxies(resp)
    /\ proxyProviders' = sortedProviders(provs)
    /\ proxyNodeMap' =
           newProxyNodeMap(spread(proxyNodeMap), allProxies(provs, resp))
    /\ latencyMap' = newLatencyMap(spread(latencyMap), allProxies(provs, resp))

\* a direct call of fetchProxies(): both requests of line 120 go out
CallFetchProxies ==
    /\ Len(calls) < MaxCalls
    /\ calls' = Append(calls,
           Call("fetchProxies", "", "", "fetch", "none", "pending"))
    /\ UNCHANGED <<snapshot, busyMaps>>
    /\ UNCHANGED env

\* fetchProxyProvidersAPI() resolves
FetchProxyProvidersResolve(c, v) ==
    /\ calls[c].pc = "fetch"
    /\ calls[c].gotProviders = 0
    /\ IF calls[c].gotProxies = 0
       THEN /\ calls' = [calls EXCEPT ![c].gotProviders = v]
            /\ UNCHANGED <<snapshot, busyMaps>>
       ELSE /\ Publish(ProvidersResponses[v],
                       ProxiesResponses[calls[c].gotProxies])
            /\ afterFetch(c, "ok")
    /\ UNCHANGED env

\* fetchProxiesAPI() resolves
FetchProxiesResolve(c, p) ==
    /\ calls[c].pc = "fetch"
    /\ calls[c].gotProxies = 0
    /\ IF calls[c].gotProviders = 0
       THEN /\ calls' = [calls EXCEPT ![c].gotProxies = p]
            /\ UNCHANGED <<snapshot, busyMaps>>
       ELSE /\ Publish(ProvidersResponses[calls[c].gotProviders],
                       ProxiesResponses[p])
            /\ afterFetch(c, "ok")
    /\ UNCHANGED env

\* Mutant: a provider list that has arrived is published although the
\* proxy list failed
rejectFetchPartial(c) ==
    /\ proxyProviders' =
           IF calls[c].gotProviders # 0
           THEN sortedProviders(ProvidersResponses[calls[c].gotProviders])
           ELSE proxyProviders
    /\ UNCHANGED <<proxies, latencyMap, proxyNodeMap>>
    /\ afterFetch(c, "failed")

\* Promise.all of line 120 rejects with the first rejection
rejectFetch(c) ==
    /\ UNCHANGED snapshot
    /\ afterFetch(c, "failed")

\* fetchProxyProvidersAPI() rejects
FetchProxyProvidersReject(c) ==
    /\ calls[c].pc = "fetch"
    /\ calls[c].gotProviders = 0
    /\ rejectFetch(c)
    /\ UNCHANGED env

\* fetchProxiesAPI() rejects
FetchProxiesReject(c) ==
    /\ calls[c].pc = "fetch"
    /\ calls[c].gotProxies = 0
    /\ rejectFetch(c)
    /\ UNCHANGED env

----------------------------------------------------------------------------
(* proxyLatencyTest, lines 180-203 *)

CallProxyLatencyTest(proxyName) ==
    /\ Len(calls) < MaxCalls
    /\ getNowProxyNodeName(proxyName) # ""
    /\ setWithCallback("proxyLatencyTest", proxyName,
                       getNowProxyNodeName(proxyName))
    /\ UNCHANGED snapshot
    /\ UNCHANGED env

\* Mutant: a latency entry that exists is not overwritten
writeLatencyIfAbsent(nodeName, delay) ==
    /\ latencyMap' = IF nodeName \in DOMAIN latencyMap THEN latencyMap
                     ELSE MapSet(latencyMap, nodeName, delay)
    /\ UNCHANGED <<proxies, proxyProviders, proxyNodeMap>>

\* lines 192-195 and 197-200
writeLatency(nodeName, delay) ==
    /\ latencyMap' = MapSet(latencyMap, nodeName, delay)
    /\ UNCHANGED <<proxies, proxyProviders, proxyNodeMap>>

\* proxyLatencyTestAPI resolves with { delay }
ProxyLatencyTestResolve(c, delay) ==
    /\ calls[c].kind = "proxyLatencyTest"
    /\ calls[c].pc = "remote"
    /\ writeLatency(calls[c].key, delay)
    /\ settleGuard(c, [calls[c] EXCEPT !.remote = "ok"], "fulfilled")
    /\ UNCHANGED env

\* Mutant: the catch leaves the previous latency in place
catchKeep(c) == UNCHANGED <<proxies, proxyProviders, proxyNodeMap, latencyMap>>

\* the catch of lines 196-201
catchWrite(c) == writeLatency(calls[c].key, NOT_CONNECTED)

\* proxyLatencyTestAPI rejects
ProxyLatencyTestReject(c) ==
    /\ calls[c].kind = "proxyLatencyTest"
    /\ calls[c].pc = "remote"
    /\ catchWrite(c)
    /\ settleGuard(c, [calls[c] EXCEPT !.remote = "failed"], "fulfilled")
    /\ UNCHANGED env

----------------------------------------------------------------------------
(* proxyGroupLatencyTest, lines 205-214 *)

CallProxyGroupLatencyTest(proxyGroupName) ==
    /\ Len(calls) < MaxCalls
    /\ setWithCallback("proxyGroupLatencyTest", proxyGroupName, proxyGroupName)
    /\ UNCHANGED snapshot
    /\ UNCHANGED env

ProxyGroupLatencyTestResolve(c) ==
    /\ calls[c].kind = "proxyGroupLatencyTest"
    /\ calls[c].pc = "remote"
    /\ thenFetch(c, "ok")
    /\ UNCHANGED env

\* the callback has no catch: it rejects
rejectCallback(c) ==
    /\ UNCHANGED snapshot
    /\ settleGuard(c, [calls[c] EXCEPT !.remote = "failed"], "rejected")

ProxyGroupLatencyTestReject(c) ==
    /\ calls[c].kind = "proxyGroupLatencyTest"
    /\ calls[c].pc = "remote"
    /\ rejectCallback(c)
    /\ UNCHANGED env

----------------------------------------------------------------------------
(* updateProviderByProviderName, lines 216-224 *)

\* Mutant: an update of a provider that is marked updating is dropped
CallUpdateProviderUnlessBusy(providerName) ==
    /\ Len(calls) < MaxCalls
    /\ IF providerName \in DOMAIN updatingMap /\ updatingMap[providerName]
       THEN /\ calls' = Append(calls,
                   [Call("updateProviderByProviderName", providerName,
                         providerName, "done", "fulfilled", "fulfilled")
                       EXCEPT !.remote = "none"])
            /\ UNCHANGED busyMaps
       ELSE setWithCallback("updateProviderByProviderName", providerName,
                            providerName)
    /\ UNCHANGED <<proxies, proxyProviders, latencyMap, proxyNodeMap>>
    /\ UNCHANGED env

CallUpdateProviderByProviderName(providerName) ==
    /\ Len(calls) < MaxCalls
    /\ setWithCallback("updateProviderByProviderName", providerName,
                       providerName)
    /\ UNCHANGED snapshot
    /\ UNCHANGED env

UpdateProxyProviderResolve(c) ==
    /\ calls[c].kind = "updateProviderByProviderName"
    /\ calls[c].pc = "remote"
    /\ thenFetch(c, "ok")
    /\ UNCHANGED env

\* Mutant: no catch around the remote update
rethrow(c) ==
    /\ UNCHANGED <<proxies, proxyProviders, latencyMap, proxyNodeMap>>
    /\ settleGuard(c, [calls[c] EXCEPT !.remote = "failed"], "rejected")

\* the empty catch of lines 220-222, then line 223
swallow(c) == thenFetch(c, "failed")

UpdateProxyProviderReject(c) ==
    /\ calls[c].kind = "updateProviderByProviderName"
    /\ calls[c].pc = "remote"
    /\ swallow(c)
    /\ UNCHANGED env

----------------------------------------------------------------------------
(* proxyProviderLatencyTest, lines 240-244 *)

CallProxyProviderLatencyTest(providerName) ==
    /\ Len(calls) < MaxCalls
    /\ setWithCallback("proxyProviderLatencyTest", providerName, providerName)
    /\ UNCHANGED snapshot
    /\ UNCHANGED env

ProxyProviderHealthCheckResolve(c) ==
    /\ calls[c].kind = "proxyProviderLatencyTest"
    /\ calls[c].pc = "remote"
    /\ thenFetch(c, "ok")
    /\ UNCHANGED env

ProxyProviderHealthCheckReject(c) ==
    /\ calls[c].kind = "proxyProviderLatencyTest"
    /\ calls[c].pc = "remote"
    /\ rejectCallback(c)
    /\ UNCHANGED env

----------------------------------------------------------------------------
(* selectProxyInGroup, lines 156-178 *)

\* line 157 with proxy.name = name; the proxyName to select only goes to
\* selectProxyInGroupAPI
CallSelectProxyInGroup(name) ==
    /\ Len(calls) < MaxCalls
    /\ calls' = Append(calls,
           Call("selectProxyInGroup", name, "", "remote", "none", "pending"))
    /\ UNCHANGED <<snapshot, busyMaps, env>>

\* selectProxyInGroupAPI resolves: line 158
SelectProxyInGroupResolve(c) ==
    /\ calls[c].kind = "selectProxyInGroup"
    /\ calls[c].pc = "remote"
    /\ thenFetch(c, "ok")
    /\ UNCHANGED env

\* selectProxyInGroupAPI rejects: the await of line 157 throws
SelectProxyInGroupReject(c) ==
    /\ calls[c].kind = "selectProxyInGroup"
    /\ calls[c].pc = "remote"
    /\ calls' = [calls EXCEPT
           ![c].pc = "done", ![c].remote = "failed", ![c].result = "rejected"]
    /\ UNCHANGED <<snapshot, busyMaps, env>>

\* the signals of other modules read at lines 160 and 165 change
SetAutoCloseConns(value) ==
    /\ autoCloseConns # value
    /\ autoCloseConns' = value
    /\ UNCHANGED <<snapshot, busyMaps, latestConnectionMsg, probe, calls>>

ConnectionMsgArrives(connections) ==
    /\ latestConnectionMsg # connections
    /\ latestConnectionMsg' = connections
    /\ UNCHANGED <<snapshot, busyMaps, autoCloseConns, probe, calls>>

----------------------------------------------------------------------------
(* updateAllProvider, lines 226-238 *)

\* Mutant: the flag is set only when there is a provider to update
CallUpdateAllProviderIfAny ==
    LET names == Names(proxyProviders)
    IN  /\ Len(calls) < MaxCalls
        /\ isAllProviderUpdating' = (names # {} \/ isAllProviderUpdating)
        /\ calls' = Append(calls,
               [Call("updateAllProvider", "", "",
                     IF names = {} THEN "fetch" ELSE "remote",
                     "none", "pending")
                   EXCEPT !.pending = names,
                          !.remote = IF names = {} THEN "ok" ELSE "pending"])
        /\ UNCHANGED <<proxyLatencyTestingMap, proxyGroupLatencyTestingMap,
                       proxyProviderLatencyTestingMap, updatingMap>>
        /\ UNCHANGED <<snapshot, env>>

\* line 227, then one updateProxyProviderAPI call per published provider
\* (lines 229-233); Promise.allSettled of no promise is fulfilled at once
\* and line 234 follows without another task in between
CallUpdateAllProvider ==
    LET names == Names(proxyProviders)
    IN  /\ Len(calls) < MaxCalls
        /\ isAllProviderUpdating' = TRUE
        /\ calls' = Append(calls,
               [Call("updateAllProvider", "", "",
                     IF names = {} THEN "fetch" ELSE "remote",
                     "none", "pending")
                   EXCEPT !.pending = names,
                          !.remote = IF names = {} THEN "ok" ELSE "pending"])
        /\ UNCHANGED <<proxyLatencyTestingMap, proxyGroupLatencyTestingMap,
                       proxyProviderLatencyTestingMap, updatingMap>>
        /\ UNCHANGED <<snapshot, env>>

\* one promise of the Promise.allSettled of line 229 settles; with the last
\* of them line 234 calls fetchProxies(). remote keeps whether any failed.
allSettledStep(c, provider, how) ==
    LET left == calls[c].pending \ {provider}
        sofar == IF how = "failed" \/ calls[c].remote = "failed"
                 THEN "failed" ELSE "pending"
    IN  /\ calls[c].kind = "updateAllProvider"
        /\ calls[c].pc = "remote"
        /\ provider \in calls[c].pending
        /\ calls' = [calls EXCEPT
               ![c].pending = left,
               ![c].remote = IF left = {} /\ sofar = "pending"
                             THEN "ok" ELSE sofar,
               ![c].pc = IF left = {} THEN "fetch" ELSE "remote"]
        /\ UNCHANGED <<snapshot, busyMaps, env>>

UpdateAllProviderResolve(c, provider) == allSettledStep(c, provider, "ok")

UpdateAllProviderReject(c, provider) == allSettledStep(c, provider, "failed")

----------------------------------------------------------------------------
(* Specification *)

Init ==
    /\ proxies = <<>>
    /\ proxyProviders = <<>>
    /\ latencyMap = EmptyMap
    /\ proxyNodeMap = EmptyMap
    /\ proxyLatencyTestingMap = EmptyMap
    /\ proxyGroupLatencyTestingMap = EmptyMap
    /\ proxyProviderLatencyTestingMap = EmptyMap
    /\ updatingMap = EmptyMap
    /\ isAllProviderUpdating = FALSE
    /\ autoCloseConns = FALSE
    /\ latestConnectionMsg = <<>>
    /\ probe = <<>>
    /\ calls = <<>>

Next ==
    \/ CallFetchProxies
    \/ \E proxyName \in ProxyNames : CallProxyLatencyTest(proxyName)
    \/ \E g \in GroupNames : CallProxyGroupLatencyTest(g)
    \/ \E pr \in ProviderNames : CallUpdateProviderByProviderName(pr)
    \/ \E pr \in ProviderNames : CallProxyProviderLatencyTest(pr)
    \/ \E c \in Ids, v \in ProvidersIdx : FetchProxyProvidersResolve(c, v)
    \/ \E c \in Ids, p \in ProxiesIdx : FetchProxiesResolve(c, p)
    \/ \E c \in Ids : FetchProxyProvidersReject(c)
    \/ \E c \in Ids : FetchProxiesReject(c)
    \/ \E c \in Ids, delay \in TestDelays : ProxyLatencyTestResolve(c, delay)
    \/ \E c \in Ids : ProxyLatencyTestReject(c)
    \/ \E c \in Ids : ProxyGroupLatencyTestResolve(c)
    \/ \E c \in Ids : ProxyGroupLatencyTestReject(c)
    \/ \E c \in Ids : UpdateProxyProviderResolve(c)
    \/ \E c \in Ids : UpdateProxyProviderReject(c)
    \/ \E c \in Ids : ProxyProviderHealthCheckResolve(c)
    \/ \E c \in Ids : ProxyProviderHealthCheckReject(c)

Spec == Init /\ [][Next]_vars

\* the providers updateAllProvider may find published
AllProviderNames == {"P1", "P3"}

\* refreshes and updateAllProvider
NextAll ==
    \/ CallFetchProxies
    \/ CallUpdateAllProvider
    \/ \E c \in Ids, v \in ProvidersIdx : FetchProxyProvidersResolve(c, v)
    \/ \E c \in Ids, p \in ProxiesIdx : FetchProxiesResolve(c, p)
    \/ \E c \in Ids : FetchProxyProvidersReject(c)
    \/ \E c \in Ids : FetchProxiesReject(c)
    \/ \E c \in Ids, pr \in AllProviderNames : UpdateAllProviderResolve(c, pr)
    \/ \E c \in Ids, pr \in AllProviderNames : UpdateAllProviderReject(c, pr)

SpecAll == Init /\ [][NextAll]_vars

\* a raw connection of latestConnectionMsg().connections
Connection(id, chains) ==
    [id |-> id, chains |-> chains, download |-> 1, upload |-> 1]

\* the connection lists latestConnectionMsg() can hold; <<>> is also the
\* `?? []` of line 165 for no message
ConnectionLists ==
    { <<>>,
      << Connection("c1", <<"A", "G", "GLOBAL">>),
         Connection("c2", <<"B", "H">>),
         Connection("c3", <<"G">>) >>,
      << Connection("c4", <<"B", "H">>) >> }

\* the groups a node is selected in
SelectGroups == {"G"}

\* refreshes, selectProxyInGroup, and the signals it reads
NextSelect ==
    \/ CallFetchProxies
    \/ \E name \in SelectGroups : CallSelectProxyInGroup(name)
    \/ \E c \in Ids : SelectProxyInGroupResolve(c)
    \/ \E c \in Ids : SelectProxyInGroupReject(c)
    \/ \E c \in Ids, v \in ProvidersIdx : FetchProxyProvidersResolve(c, v)
    \/ \E c \in Ids, p \in ProxiesIdx : FetchProxiesResolve(c, p)
    \/ \E c \in Ids : FetchProxyProvidersReject(c)
    \/ \E c \in Ids : FetchProxiesReject(c)
    \/ \E value \in BOOLEAN : SetAutoCloseConns(value)
    \/ \E connections \in ConnectionLists : ConnectionMsgArrives(connections)

SpecSelect == Init /\ [][NextSelect]_vars

----------------------------------------------------------------------------
(* One refresh over the fetchProxiesAPI() payloads of a small fleet *)

\* the groups G, H, K and the node A; the names GLOBAL may list
SortNames == {"G", "H", "K", "A"}
SortMembers == {"G", "H", "A"}

\* the sequences without repetition over S of a length in lens
Arrangements(S, lens) ==
    UNION {{q \in [1..k -> S] : \A i, j \in 1..k : i # j => q[i] # q[j]} :
              k \in lens}

\* the payload whose keys come in the given order, GLOBAL listing members
SortPayload(order, members) ==
    [i \in 1..Len(order) |->
        Node(order[i],
             IF order[i] = "A" THEN "Shadowsocks" ELSE "Selector",
             IF order[i] = "A" THEN "" ELSE "A",
             IF order[i] = "GLOBAL" THEN members
             ELSE IF order[i] = "A" THEN <<>> ELSE <<"A">>,
             <<>>, NoExtra)]

SortPayloads ==
    {SortPayload(order, members) :
        order \in UNION {Arrangements(S \cup {"GLOBAL"},
                                      {Cardinality(S) + 1}) :
                            S \in SUBSET SortNames},
        members \in Arrangements(SortMembers, 0..MaxRanked)}

\* nothing published yet, and the payload fetchProxiesAPI() will answer
InitSorted ==
    /\ proxies = <<>>
    /\ proxyProviders = <<>>
    /\ latencyMap = EmptyMap
    /\ proxyNodeMap = EmptyMap
    /\ proxyLatencyTestingMap = EmptyMap
    /\ proxyGroupLatencyTestingMap = EmptyMap
    /\ proxyProviderLatencyTestingMap = EmptyMap
    /\ updatingMap = EmptyMap
    /\ isAllProviderUpdating = FALSE
    /\ autoCloseConns = FALSE
    /\ latestConnectionMsg = <<>>
    /\ probe \in {[resp |-> resp, published |-> FALSE] : resp \in SortPayloads}
    /\ calls = <<>>

\* fetchProxies() with no provider and the payload of probe: lines 125-153
RefreshPayload ==
    /\ ~probe.published
    /\ Publish(<<>>, probe.resp)
    /\ probe' = [probe EXCEPT !.published = TRUE]
    /\ UNCHANGED <<busyMaps, autoCloseConns, latestConnectionMsg, calls>>

NextSorted == RefreshPayload

SpecSorted == InitSorted /\ [][NextSorted]_vars

----------------------------------------------------------------------------
(* getLatencyFromProxy over the nodes the engine can report *)

\* delays of the samples of extra[url] and of history
ExtraDelays == {0 - 7, 0, 40}
HistoryDelays == {0, 30}

\* the sequences over S of at most MaxSamples samples
Samples(S) == UNION {[1..k -> S] : k \in 0..MaxSamples}

\* proxy.extra: absent, measured for another URL only, or measured for the
\* configured URL
Extras ==
    {NoExtra, [u \in {"u2"} |-> <<40>>]}
        \cup {[u \in {urlForLatencyTest} |-> e] : e \in Samples(ExtraDelays)}

LatencyNodes ==
    {Node("A", "Shadowsocks", "", <<>>, h, e) :
        h \in Samples(HistoryDelays), e \in Extras}

InitLatency ==
    /\ proxies = <<>>
    /\ proxyProviders = <<>>
    /\ latencyMap = EmptyMap
    /\ proxyNodeMap = EmptyMap
    /\ proxyLatencyTestingMap = EmptyMap
    /\ proxyGroupLatencyTestingMap = EmptyMap
    /\ proxyProviderLatencyTestingMap = EmptyMap
    /\ updatingMap = EmptyMap
    /\ isAllProviderUpdating = FALSE
    /\ autoCloseConns = FALSE
    /\ latestConnectionMsg = <<>>
    /\ probe \in {[proxy |-> n, fallbackDefault |-> f, called |-> FALSE,
                    out |-> 0] : n \in LatencyNodes, f \in BOOLEAN}
    /\ calls = <<>>

\* a call getLatencyFromProxy(proxy, urlForLatencyTest(), fallbackDefault)
CallGetLatencyFromProxy ==
    /\ ~probe.called
    /\ probe' = [probe EXCEPT
           !.called = TRUE,
           !.out = getLatencyFromProxy(probe.proxy, urlForLatencyTest,
                                       probe.fallbackDefault)]
    /\ UNCHANGED <<snapshot, busyMaps, autoCloseConns, latestConnectionMsg,
                   calls>>

NextLatency == CallGetLatencyFromProxy

SpecLatency == InitLatency /\ [][NextLatency]_vars

----------------------------------------------------------------------------
(* getNowProxyNodeName over the node indexes a refresh can publish *)

\* the names of the top-level proxies and what their `now` can be; no
\* payload has a proxy named Z
ResolveNames == {"A", "B"}
ResolvePointers == {"", "GLOBAL", "A", "B", "Z"}

\* the fetchProxiesAPI() payload with GLOBAL and the proxies of DOMAIN now,
\* each selecting now[name]
ResolvePayload(now) ==
    LET entry(name) == Node(name, IF now[name] = "" THEN "Direct" ELSE "Selector",
                            now[name],
                            IF now[name] = "" THEN <<>> ELSE <<now[name]>>,
                            <<>>, NoExtra)
    IN  <<entry("GLOBAL")>>
            \o (IF "A" \in DOMAIN now THEN <<entry("A")>> ELSE <<>>)
            \o (IF "B" \in DOMAIN now THEN <<entry("B")>> ELSE <<>>)

ResolvePayloads ==
    {ResolvePayload(now) :
        now \in UNION {[S \cup {"GLOBAL"} -> ResolvePointers] :
                           S \in SUBSET ResolveNames}}

\* the state after one successful refresh of a payload without providers
InitResolve ==
    /\ \E resp \in ResolvePayloads :
           /\ proxies = sortedProxies(resp)
           /\ proxyNodeMap = newProxyNodeMap(EmptyMap, allProxies(<<>>, resp))
           /\ latencyMap = newLatencyMap(EmptyMap, allProxies(<<>>, resp))
    /\ proxyProviders = <<>>
    /\ proxyLatencyTestingMap = EmptyMap
    /\ proxyGroupLatencyTestingMap = EmptyMap
    /\ proxyProviderLatencyTestingMap = EmptyMap
    /\ updatingMap = EmptyMap
    /\ isAllProviderUpdating = FALSE
    /\ autoCloseConns = FALSE
    /\ latestConnectionMsg = <<>>
    /\ probe = <<>>
    /\ calls = <<>>

\* a call getNowProxyNodeName(name) and what it returns, if it returns
CallGetNowProxyNodeName(name) ==
    /\ probe = <<>>
    /\ probe' = [name |-> name,
                 returned |-> ~Hangs(name),
                 out |-> getNowProxyNodeName(name)]
    /\ UNCHANGED <<snapshot, busyMaps, autoCloseConns, latestConnectionMsg,
                   calls>>

NextResolve ==
    \E name \in ResolvePointers : CallGetNowProxyNodeName(name)

SpecResolve == InitResolve /\ [][NextResolve]_vars

----------------------------------------------------------------------------
(* Vocabulary of the properties *)

Unsettled(c) == calls[c].pc # "done"

\* the calls of one guarded operation for one key
CallsOf(kind, key) ==
    {c \in Ids : calls[c].kind = kind /\ calls[c].key = key}

Keys == {calls[c].key : c \in Ids}

IsBusy(map, key) == key \in DOMAIN map /\ map[key]

\* the busy map the store dedicates to each guarded operation
NamespaceOf(kind) ==
    CASE kind = "proxyLatencyTest" -> proxyLatencyTestingMap
      [] kind = "proxyGroupLatencyTest" -> proxyGroupLatencyTestingMap
      [] kind = "updateProviderByProviderName" -> updatingMap
      [] kind = "proxyProviderLatencyTest" -> proxyProviderLatencyTestingMap

\* this step appends a call
Invokes == Len(calls') = Len(calls) + 1

\* this step settles call c, which was suspended at pc
SettlesFrom(c, pc) == calls[c].pc = pc /\ calls'[c].pc = "done"

\* the full node set of one pair of payloads
NodeSet(v, p) == Names(allProxies(ProvidersResponses[v], ProxiesResponses[p]))

\* this step publishes proxies and providers made from payloads v and p
PublishesFrom(v, p) ==
    /\ proxies' = sortedProxies(ProxiesResponses[p])
    /\ proxyProviders' = sortedProviders(ProvidersResponses[v])

\* this step completes the refresh of some call
Refreshes == \E c \in Ids : calls[c].pc = "fetch" /\ calls'[c].fetched = "ok"

----------------------------------------------------------------------------
(* C1 *)

\* C1 as stated: for each guarded operation and each key, at most one remote
\* operation for that key is in flight at any time.
C1_AtMostOneRemoteInFlight ==
    \A kind \in GuardedKinds : \A key \in Keys :
        Cardinality({c \in CallsOf(kind, key) : calls[c].pc = "remote"}) <= 1

\* C1 amended: the guard keeps one boolean marker per key, registered in the
\* operation's own busy map by every invocation and in no other map; it does
\* not limit the remote operations, which overlapping calls for one key run
\* concurrently.
C1_OneMarkerPerKeyNoSerialising ==
    \A kind \in GuardedKinds :
        /\ DOMAIN NamespaceOf(kind) = {calls[c].key : c \in
               {d \in Ids : calls[d].kind = kind}}
        /\ \A key \in DOMAIN NamespaceOf(kind) :
               NamespaceOf(kind)[key] \in BOOLEAN

C1_Witness ==
    \E c, d \in Ids :
        /\ c # d
        /\ calls[c].kind = "proxyProviderLatencyTest"
        /\ calls[d].kind = "proxyProviderLatencyTest"
        /\ calls[c].key = calls[d].key
        /\ calls[c].pc = "remote" /\ calls[d].pc = "remote"
        /\ DOMAIN proxyProviderLatencyTestingMap = {calls[c].key}
        /\ DOMAIN updatingMap = {}

----------------------------------------------------------------------------
(* C2 *)

\* C2: a step in which one of the two fetches of a refresh fails changes none
\* of proxies, providers, nodeIndex and latencyMap, ends the refresh without
\* anything of it being published later, and a direct refresh() is rejected
\* to its caller.
C2_FailedRefreshPublishesNothing ==
    [][\A c \in Ids :
          (calls[c].pc = "fetch" /\ calls'[c].fetched = "failed") =>
              /\ UNCHANGED snapshot
              /\ calls'[c].pc = "done"
              /\ calls[c].kind = "fetchProxies" =>
                     calls'[c].result = "rejected"]_vars

C2_Witness ==
    \E c \in Ids :
        /\ calls[c].kind = "fetchProxies"
        /\ calls[c].fetched = "failed"
        /\ calls[c].result = "rejected"
        /\ proxies = sortedProxies(ProxiesResponses[1])
        /\ proxyProviders = sortedProviders(ProvidersResponses[1])
        /\ \E d \in Ids : d < c /\ calls[d].fetched = "ok"

----------------------------------------------------------------------------
(* C3 *)

\* C3: every step that changes proxies, providers or nodeIndex is one
\* publication: all of proxies, providers, nodeIndex and latencyMap take, in
\* that one step, the values made from one and the same pair of fetched
\* payloads, so no state holds parts of two refreshes.
C3_PublishedInOneStep ==
    [][(proxies' # proxies \/ proxyProviders' # proxyProviders
            \/ proxyNodeMap' # proxyNodeMap \/ Refreshes) =>
          \E v \in ProvidersIdx, p \in ProxiesIdx :
              LET all == allProxies(ProvidersResponses[v], ProxiesResponses[p])
              IN  /\ PublishesFrom(v, p)
                  /\ proxyNodeMap' = newProxyNodeMap(proxyNodeMap, all)
                  /\ latencyMap' = newLatencyMap(latencyMap, all)]_vars

\* a refresh has published its payloads while a node latency test invoked
\* before it is still in flight
C3_Witness ==
    \E c, d \in Ids :
        /\ c < d
        /\ calls[c].kind = "proxyLatencyTest" /\ Unsettled(c)
        /\ calls[d].kind = "fetchProxies" /\ calls[d].fetched = "ok"
        /\ proxies = sortedProxies(ProxiesResponses[2])
        /\ proxyProviders = sortedProviders(ProvidersResponses[1])
        /\ DOMAIN proxyNodeMap = NodeSet(1, 2)
        /\ DOMAIN latencyMap = NodeSet(1, 2)

----------------------------------------------------------------------------
(* C4 *)

\* C4 as stated: after a successful refresh nodeIndex holds entries for
\* exactly the names of that refresh's full node set, and no name of the
\* previous nodeIndex that is absent from that set keeps a latencyMap entry.
C4_ExactlyTheNodeSet ==
    [][Refreshes =>
          \E v \in ProvidersIdx, p \in ProxiesIdx :
              /\ PublishesFrom(v, p)
              /\ DOMAIN proxyNodeMap' = NodeSet(v, p)
              /\ NodeSet(v, p) \subseteq DOMAIN latencyMap'
              /\ (DOMAIN latencyMap' \cap DOMAIN proxyNodeMap)
                     \subseteq NodeSet(v, p)]_vars

\* C4 amended: a successful refresh replaces proxies and providers wholesale
\* and writes the nodeIndex and latencyMap entries of every name of its full
\* node set; the entries of all other names are kept as they were, so a name
\* of an earlier snapshot that is absent from the new fetch keeps its entries.
C4_MergedNotReplaced ==
    [][Refreshes =>
          \E v \in ProvidersIdx, p \in ProxiesIdx :
              /\ PublishesFrom(v, p)
              /\ DOMAIN proxyNodeMap' = DOMAIN proxyNodeMap \cup NodeSet(v, p)
              /\ DOMAIN latencyMap' = DOMAIN latencyMap \cup NodeSet(v, p)
              /\ \A n \in DOMAIN proxyNodeMap \ NodeSet(v, p) :
                     proxyNodeMap'[n] = proxyNodeMap[n]
              /\ \A n \in DOMAIN latencyMap \ NodeSet(v, p) :
                     latencyMap'[n] = latencyMap[n]]_vars

\* the second payload has been published after the first: A and N, absent
\* from it, still have their entries
C4_Witness ==
    /\ proxies = sortedProxies(ProxiesResponses[2])
    /\ proxyProviders = sortedProviders(ProvidersResponses[2])
    /\ {"A", "N"} \subseteq DOMAIN proxyNodeMap
    /\ {"A", "N"} \subseteq DOMAIN latencyMap
    /\ {"A", "N"} \cap NodeSet(2, 2) = {}

----------------------------------------------------------------------------
(* C5 *)

\* C5: for every guarded operation and key, when no call of that operation
\* for that key is in flight (each has settled, fulfilled or rejected), the
\* busy flag of that key in the operation's busy map is not true.
C5_FlagClearedOnceSettled ==
    \A kind \in GuardedKinds : \A key \in Keys \cup DOMAIN NamespaceOf(kind) :
        (\A c \in CallsOf(kind, key) : ~Unsettled(c)) =>
            ~IsBusy(NamespaceOf(kind), key)

\* a health check whose refresh failed has settled, and a provider update
\* on the same key is still in flight
C5_Witness ==
    \E d, e \in Ids :
        /\ calls[d].kind = "proxyProviderLatencyTest"
        /\ calls[d].guard = "rejected" /\ calls[d].fetched = "failed"
        /\ calls[e].kind = "updateProviderByProviderName"
        /\ calls[e].key = calls[d].key /\ Unsettled(e)
        /\ IsBusy(updatingMap, calls[e].key)
        /\ ~IsBusy(proxyProviderLatencyTestingMap, calls[d].key)

----------------------------------------------------------------------------
(* C6 *)

----------------------------------------------------------------------------
(* C7 *)

\* C7: an invocation of a guarded operation for a key whose busy flag is
\* true starts its own remote operation in that very step and leaves the
\* earlier calls as they are: it is neither queued nor dropped.
C7_BusyKeyStillRuns ==
    [][\A kind \in GuardedKinds :
          LET new == calls'[Len(calls')]
          IN  (/\ Invokes
               /\ new.kind = kind
               /\ IsBusy(NamespaceOf(kind), new.key)) =>
                  /\ new.pc = "remote"
                  /\ new.remote = "pending"
                  /\ SubSeq(calls', 1, Len(calls)) = calls]_vars

\* two calls of each of two guarded operations for one key have their
\* remote operations in flight together
C7_Witness ==
    \E c, d \in Ids :
        /\ c < d
        /\ calls[c].kind = "updateProviderByProviderName"
        /\ calls[d].kind = "updateProviderByProviderName"
        /\ calls[c].key = calls[d].key
        /\ calls[c].pc = "remote" /\ calls[d].pc = "remote"

----------------------------------------------------------------------------
(* C8 *)

\* C8: a node latency test registers and tests the terminal node T that its
\* proxyName resolves to when it is invoked; the step that settles it sets
\* latencyMap[T] to the returned delay when the remote test succeeded and to
\* NOT_CONNECTED when it failed, and changes nothing else of the snapshot.
C8_TestWritesOnlyItsTerminal ==
    [][/\ (Invokes /\ calls'[Len(calls')].kind = "proxyLatencyTest") =>
              /\ calls'[Len(calls')].key =
                     getNowProxyNodeName(calls'[Len(calls')].arg)
              /\ UNCHANGED snapshot
       /\ \A c \in Ids :
              (calls[c].kind = "proxyLatencyTest" /\ Unsettled(c)) =>
                  /\ calls'[c].key = calls[c].key
                  /\ SettlesFrom(c, "remote") =>
                         /\ UNCHANGED <<proxies, proxyProviders, proxyNodeMap>>
                         /\ \E delay \in TestDelays \cup {NOT_CONNECTED} :
                                latencyMap' =
                                    MapSet(latencyMap, calls[c].key, delay)
                         /\ calls'[c].remote = "failed" <=>
                                latencyMap'[calls[c].key] = NOT_CONNECTED
                         /\ calls'[c].fetched = "pending"]_vars

\* a test of G, which resolved to A, has failed: latencyMap[A] went from the
\* refresh's 40 to NOT_CONNECTED
C8_Witness ==
    \E c \in Ids :
        /\ calls[c].kind = "proxyLatencyTest"
        /\ calls[c].arg = "G" /\ calls[c].key = "A"
        /\ calls[c].remote = "failed"
        /\ latencyMap["A"] = NOT_CONNECTED
        /\ latencyMap["N"] = 20

----------------------------------------------------------------------------
(* C9 *)

\* C9 as stated: when the remote group latency test or the remote provider
\* health check has failed, the promise held by the caller of
\* proxyGroupLatencyTest / proxyProviderLatencyTest is rejected, and the call
\* has started no refresh.
C9_FailurePropagatesToCaller ==
    \A c \in Ids :
        (/\ calls[c].kind \in {"proxyGroupLatencyTest",
                               "proxyProviderLatencyTest"}
         /\ calls[c].remote = "failed") =>
            /\ calls[c].result = "rejected"
            /\ calls[c].fetched = "pending"
            /\ calls[c].pc = "done"

----------------------------------------------------------------------------
(* C10 *)

\* C10: once the remote update of updateProviderByProviderName has settled,
\* ok or failed, the call is in or past its refresh; it settles only with
\* the refresh settled; and its caller sees a rejection only when that
\* refresh failed, never for the remote update.
C10_UpdateAlwaysRefreshes ==
    \A c \in Ids :
        calls[c].kind = "updateProviderByProviderName" =>
            /\ calls[c].remote # "pending" => calls[c].pc \in {"fetch", "done"}
            /\ calls[c].pc = "done" => calls[c].fetched \in {"ok", "failed"}
            /\ calls[c].result = "rejected" => calls[c].fetched = "failed"
            /\ calls[c].fetched = "ok" => calls[c].result = "fulfilled"

\* a provider update whose remote call failed has refreshed and is fulfilled
C10_Witness ==
    \E c \in Ids :
        /\ calls[c].kind = "updateProviderByProviderName"
        /\ calls[c].remote = "failed"
        /\ calls[c].fetched = "ok"
        /\ calls[c].result = "fulfilled"
        /\ proxies # <<>>

----------------------------------------------------------------------------
(* C11 *)

\* C11: every updateAllProvider call sets isAllProviderUpdating to true in
\* the step that invokes it; the step that settles it leaves the flag false,
\* whether its provider updates or its refresh failed or not; it settles
\* only with its refresh settled, and its refresh is not started while one
\* of its provider update calls is still pending.
C11_FlagSetAndClearedAfterAllSettled ==
    [][/\ (Invokes /\ calls'[Len(calls')].kind = "updateAllProvider") =>
              /\ isAllProviderUpdating'
              /\ calls'[Len(calls')].pending = Names(proxyProviders)
       /\ \A c \in 1..Len(calls') :
              calls'[c].kind = "updateAllProvider" =>
                  /\ calls'[c].pending # {} =>
                         /\ calls'[c].pc = "remote"
                         /\ calls'[c].fetched = "pending"
                         /\ calls'[c].gotProviders = 0
                         /\ calls'[c].gotProxies = 0
                  /\ calls'[c].pending = {} => calls'[c].pc # "remote"
       /\ \A c \in Ids :
              (calls[c].kind = "updateAllProvider" /\ Unsettled(c)) =>
                  /\ calls'[c].pending \subseteq calls[c].pending
                  /\ calls'[c].pc = "done" =>
                         /\ ~isAllProviderUpdating'
                         /\ calls[c].pc = "fetch"
                         /\ calls'[c].fetched \in {"ok", "failed"}
                         /\ calls'[c].result = Outcome(calls'[c].fetched)]_vars

\* an updateAllProvider call over two providers, one of whose updates
\* failed, has settled with its refresh failed, and the flag is false
C11_Witness ==
    \E c \in Ids :
        /\ calls[c].kind = "updateAllProvider"
        /\ Names(proxyProviders) = {"P1", "P3"}
        /\ calls[c].remote = "failed"
        /\ calls[c].fetched = "failed"
        /\ calls[c].pc = "done"
        /\ ~isAllProviderUpdating

----------------------------------------------------------------------------
(* C12 *)

\* nodeIndex[n].latency, the selection pointer of n
PointerOf(n) == proxyNodeMap[n].latency

\* the walk stops at n: its pointer is empty, names n itself, or names a
\* node absent from nodeIndex
StopsAt(n) ==
    PointerOf(n) = "" \/ PointerOf(n) = n
        \/ PointerOf(n) \notin DOMAIN proxyNodeMap

\* the node k pointers after n, staying where the walk stops
RECURSIVE Hops(_, _)
Hops(n, k) ==
    IF k = 0 \/ StopsAt(n) THEN n ELSE Hops(PointerOf(n), k - 1)

\* the chain from name runs into a cycle of two or more nodes
OnCycle(name) ==
    \E k \in 0..Cardinality(DOMAIN proxyNodeMap) :
        LET n == Hops(name, k)
        IN  /\ ~StopsAt(n)
            /\ \E j \in 2..Cardinality(DOMAIN proxyNodeMap) :
                   /\ Hops(n, j) = n
                   /\ \A i \in 1..j : ~StopsAt(Hops(n, i))

\* the chains of nodeIndex from name to the first node the walk stops at
ChainsFrom(name) ==
    {ch \in UNION {[1..k -> DOMAIN proxyNodeMap] :
                      k \in 1..Cardinality(DOMAIN proxyNodeMap)} :
        /\ ch[1] = name
        /\ \A i \in 1..(Len(ch) - 1) :
               ~StopsAt(ch[i]) /\ ch[i + 1] = PointerOf(ch[i])
        /\ StopsAt(ch[Len(ch)])}

\* C12: for every nodeIndex and name whose chain of pointers has no cycle
\* other than a self-loop, getNowProxyNodeName(name) returns; it returns
\* name when name is empty or not in nodeIndex, and otherwise the first
\* node of the chain whose pointer is empty, its own name or the name of a
\* node absent from nodeIndex, never that absent name.
C12_ResolvesToFirstStop ==
    (probe # <<>>) =>
        IF probe.name = "" \/ probe.name \notin DOMAIN proxyNodeMap
        THEN probe.returned /\ probe.out = probe.name
        ELSE ~OnCycle(probe.name) =>
                 /\ probe.returned
                 /\ probe.out \in DOMAIN proxyNodeMap
                 /\ \E ch \in ChainsFrom(probe.name) :
                        probe.out = ch[Len(ch)]

\* GLOBAL selects A, A selects B, B selects Z, which is not indexed: the
\* call for GLOBAL has returned B
C12_Witness ==
    /\ probe # <<>>
    /\ probe.name = "GLOBAL"
    /\ DOMAIN proxyNodeMap = {"GLOBAL", "A", "B"}
    /\ PointerOf("GLOBAL") = "A"
    /\ PointerOf("A") = "B"
    /\ PointerOf("B") = "Z"
    /\ probe.returned
    /\ probe.out = "B"

----------------------------------------------------------------------------
(* C13 *)

\* the member list of GLOBAL in a payload
MembersOf(resp) ==
    (CHOOSE x \in {resp[i] : i \in 1..Len(resp)} : x.name = "GLOBAL").all

\* GLOBAL or a member of GLOBAL
Ranked(resp, x) ==
    x.name = "GLOBAL"
        \/ \E i \in 1..Len(MembersOf(resp)) : MembersOf(resp)[i] = x.name

\* x comes before y in the member list of GLOBAL followed by GLOBAL
RankedBefore(resp, x, y) ==
    LET list == MembersOf(resp) \o <<"GLOBAL">>
    IN  \E i, j \in 1..Len(list) :
            i < j /\ list[i] = x.name /\ list[j] = y.name

\* x comes before y in the payload
FetchedBefore(resp, x, y) ==
    \E i, j \in 1..Len(resp) : i < j /\ resp[i] = x /\ resp[j] = y

\* C13: after a successful refresh, proxies holds exactly the fetched
\* top-level proxies with a non-empty member list, each once; those GLOBAL
\* lists come in the order of the list, GLOBAL after them; those it does not
\* list come before every listed one, in the order they were fetched.
C13_SortedByGlobalMembers ==
    probe.published =>
        LET resp == probe.resp
        IN  /\ {proxies[i] : i \in 1..Len(proxies)} =
                   {resp[i] : i \in {j \in 1..Len(resp) : resp[j].all # <<>>}}
            /\ Len(proxies) =
                   Cardinality({j \in 1..Len(resp) : resp[j].all # <<>>})
            /\ \A i, j \in 1..Len(proxies) :
                   i < j =>
                       LET x == proxies[i]
                           y == proxies[j]
                       IN  /\ Ranked(resp, x) => Ranked(resp, y)
                           /\ (Ranked(resp, x) /\ Ranked(resp, y)) =>
                                  RankedBefore(resp, x, y)
                           /\ (~Ranked(resp, x) /\ ~Ranked(resp, y)) =>
                                  FetchedBefore(resp, x, y)

\* fetched as H, GLOBAL, G, A, K with GLOBAL listing A and G: published as
\* H, K, G, GLOBAL
C13_Witness ==
    /\ probe.published
    /\ [i \in 1..Len(probe.resp) |-> probe.resp[i].name] =
           <<"H", "GLOBAL", "G", "A", "K">>
    /\ MembersOf(probe.resp) = <<"A", "G">>
    /\ [i \in 1..Len(proxies) |-> proxies[i].name] =
           <<"H", "K", "G", "GLOBAL">>

----------------------------------------------------------------------------
(* C14 *)

\* C14: a step that completes a refresh leaves, for every top-level proxy
\* of the fetched payload, the projection of that proxy with an empty
\* provider tag in nodeIndex and its derived latency in latencyMap, also
\* when a provider of the fetched payload supplies a node of the same name.
C14_TopLevelProxyNotOverridden ==
    [][Refreshes =>
          \E v \in ProvidersIdx, p \in ProxiesIdx :
              /\ PublishesFrom(v, p)
              /\ \A i \in 1..Len(ProxiesResponses[p]) :
                     LET top == ProxiesResponses[p][i]
                     IN  /\ proxyNodeMap'[top.name] = ProxyInfo(top)
                         /\ proxyNodeMap'[top.name].provider = ""
                         /\ proxyNodeMap'[top.name].type = top.type
                         /\ proxyNodeMap'[top.name].latencyTestHistory =
                                top.history
                         /\ latencyMap'[top.name] =
                                getLatencyFromProxy(top, urlForLatencyTest,
                                                    TRUE)]_vars

\* A was indexed as a node of provider P1 by a refresh in which it was no
\* top-level proxy (H is from that payload); the next refresh fetched A
\* both as a top-level proxy and as a node of P1, and A is indexed as the
\* top-level proxy
C14_Witness ==
    /\ proxies = sortedProxies(ProxiesResponses[1])
    /\ proxyProviders = sortedProviders(ProvidersResponses[1])
    /\ {"H", "N", "A"} \subseteq DOMAIN proxyNodeMap
    /\ "M" \notin DOMAIN proxyNodeMap
    /\ \E i \in 1..Len(ProvidersResponses[1][2].proxies) :
           ProvidersResponses[1][2].proxies[i].name = "A"
    /\ proxyNodeMap["A"].provider = ""
    /\ proxyNodeMap["A"].type = "Shadowsocks"
    /\ latencyMap["A"] = 40
    /\ proxyNodeMap["N"].provider = "P1"

----------------------------------------------------------------------------
(* C15 *)

\* a provider the filter of lines 132-135 drops
Excluded(provider) ==
    provider.name = "default" \/ provider.vehicleType = "Compatible"

\* the providers of payload v that are dropped, and those that are listed
ExcludedOf(v) ==
    {ProvidersResponses[v][i] :
        i \in {j \in 1..Len(ProvidersResponses[v]) :
                  Excluded(ProvidersResponses[v][j])}}

ListedOf(v) ==
    {ProvidersResponses[v][i] :
        i \in {j \in 1..Len(ProvidersResponses[v]) :
                  ~Excluded(ProvidersResponses[v][j])}}

\* C15 as stated: after a successful refresh a provider named "default" or
\* of vehicleType "Compatible" is absent from the published providers, and
\* every node it supplies is present in nodeIndex.
C15_ExcludedProviderNodesIndexed ==
    [][Refreshes =>
          \E v \in ProvidersIdx, p \in ProxiesIdx :
              /\ PublishesFrom(v, p)
              /\ \A e \in ExcludedOf(v) :
                     /\ e.name \notin Names(proxyProviders')
                     /\ Names(e.proxies) \subseteq DOMAIN proxyNodeMap']_vars

\* C15 amended: after a successful refresh a provider named "default" or of
\* vehicleType "Compatible" is absent from the published providers, and the
\* refresh indexes none of its nodes on its behalf: a name it supplies is in
\* nodeIndex only if it is also a fetched top-level proxy, or a node of a
\* listed provider, or was in nodeIndex before, and no entry written by the
\* refresh carries the excluded provider's tag.
C15_ExcludedProviderNodesNotAdded ==
    [][Refreshes =>
          \E v \in ProvidersIdx, p \in ProxiesIdx :
              /\ PublishesFrom(v, p)
              /\ \A e \in ExcludedOf(v) :
                     /\ e.name \notin Names(proxyProviders')
                     /\ \A n \in Names(e.proxies) :
                            /\ n \in DOMAIN proxyNodeMap' <=>
                                   \/ n \in Names(ProxiesResponses[p])
                                   \/ \E l \in ListedOf(v) :
                                          n \in Names(l.proxies)
                                   \/ n \in DOMAIN proxyNodeMap
                            /\ (/\ n \in DOMAIN proxyNodeMap'
                                /\ n \notin DOMAIN proxyNodeMap) =>
                                   proxyNodeMap'[n].provider # e.name]_vars

\* the payload with provider "default", which supplies A and D, has been
\* published: the provider is not listed, A (a top-level proxy too) is
\* indexed without a provider tag, D is not indexed
C15_Witness ==
    /\ proxies = sortedProxies(ProxiesResponses[1])
    /\ proxyProviders = sortedProviders(ProvidersResponses[1])
    /\ \E e \in ExcludedOf(1) :
           e.name = "default" /\ Names(e.proxies) = {"A", "D"}
    /\ "default" \notin Names(proxyProviders)
    /\ "A" \in DOMAIN proxyNodeMap
    /\ proxyNodeMap["A"].provider = ""
    /\ "D" \notin DOMAIN proxyNodeMap

----------------------------------------------------------------------------
(* C16 *)

\* the samples of the probed node for the configured URL, none if absent
ExtraSamples ==
    IF urlForLatencyTest \in DOMAIN probe.proxy.extra
    THEN probe.proxy.extra[urlForLatencyTest]
    ELSE <<>>

\* what the call falls back to when extra[url] gives no result
FallbackLatency ==
    IF ~probe.fallbackDefault THEN NOT_CONNECTED
    ELSE IF Len(probe.proxy.history) = 0 THEN NOT_CONNECTED
    ELSE probe.proxy.history[Len(probe.proxy.history)]

\* C16 as stated: the result is the delay of the last sample of extra[url]
\* when there is one and its delay is positive, and the fallback otherwise,
\* for every delay, zero and negative included.
C16_PositiveExtraElseFallback ==
    probe.called =>
        probe.out =
            IF Len(ExtraSamples) > 0 /\ ExtraSamples[Len(ExtraSamples)] > 0
            THEN ExtraSamples[Len(ExtraSamples)]
            ELSE FallbackLatency

\* C16 amended: the result is the delay of the last sample of extra[url]
\* when there is one and its delay is not zero, a negative delay included;
\* otherwise NOT_CONNECTED when fallbackDefault is false, else the delay of
\* the last sample of history, or NOT_CONNECTED when history is empty. A
\* zero delay of the last sample of extra[url] always leads to the fallback.
C16_NonZeroExtraElseFallback ==
    probe.called =>
        /\ probe.out =
               IF Len(ExtraSamples) > 0 /\ ExtraSamples[Len(ExtraSamples)] # 0
               THEN ExtraSamples[Len(ExtraSamples)]
               ELSE FallbackLatency
        /\ (Len(ExtraSamples) > 0 /\ ExtraSamples[Len(ExtraSamples)] = 0) =>
               probe.out = FallbackLatency

\* the last sample of extra[url] has delay -7 and history ends with 30: the
\* call with fallbackDefault has returned -7
C16_Witness ==
    /\ probe.called
    /\ probe.fallbackDefault
    /\ ExtraSamples = <<40, 0 - 7>>
    /\ probe.proxy.history = <<0, 30>>
    /\ probe.out = 0 - 7

----------------------------------------------------------------------------
(* C17 *)

\* the positions in the current connection list of the connections whose
\* chain contains name
Through(name) ==
    {i \in 1..Len(latestConnectionMsg) :
        \E k \in 1..Len(latestConnectionMsg[i].chains) :
            latestConnectionMsg[i].chains[k] = name}

\* C17: a selectProxyInGroup call issues close requests in one step only:
\* the step in which its refresh completes successfully, its selection
\* change having succeeded before, and only with auto-close enabled; the
\* requests are then one for each connection of the current connection
\* list whose chain contains the group's name, and for no other. A call
\* that settles with auto-close disabled, or with its selection change or
\* its refresh failed, has issued none, and no other operation issues any.
C17_ClosesOnlyAfterSelectAndRefresh ==
    [][\A c \in Ids :
          /\ calls'[c].closed # calls[c].closed =>
                 /\ calls[c].kind = "selectProxyInGroup"
                 /\ calls[c].closed = <<>>
                 /\ calls[c].pc = "fetch" /\ calls'[c].pc = "done"
                 /\ calls[c].remote = "ok"
                 /\ calls'[c].fetched = "ok"
                 /\ autoCloseConns
          /\ (/\ calls[c].kind = "selectProxyInGroup"
              /\ Unsettled(c) /\ calls'[c].pc = "done") =>
                 IF /\ calls'[c].remote = "ok"
                    /\ calls'[c].fetched = "ok"
                    /\ autoCloseConns
                 THEN /\ {calls'[c].closed[k] :
                             k \in 1..Len(calls'[c].closed)} =
                             {latestConnectionMsg[i].id :
                                 i \in Through(calls[c].arg)}
                      /\ Len(calls'[c].closed) =
                             Cardinality(Through(calls[c].arg))
                 ELSE calls'[c].closed = <<>>]_vars

\* with auto-close enabled and connections c1, c2, c3 current, a call for
\* group G has closed c1 and c3, whose chains contain G, and not c2
C17_Witness ==
    \E c \in Ids :
        /\ calls[c].kind = "selectProxyInGroup"
        /\ calls[c].arg = "G"
        /\ calls[c].remote = "ok" /\ calls[c].fetched = "ok"
        /\ calls[c].closed = <<"c1", "c3">>
        /\ autoCloseConns
        /\ Len(latestConnectionMsg) = 3
        /\ latestConnectionMsg[2].id = "c2"

----------------------------------------------------------------------------
(* C18 *)

\* the keys of the node latency tests that have written their result
TestedKeys ==
    {calls[c].key :
        c \in {d \in Ids : calls[d].kind = "proxyLatencyTest"
                               /\ calls[d].pc = "done"}}

\* C18 as stated: in every reachable state nodeIndex and latencyMap have
\* exactly the same set of keys.
C18_SameKeys == DOMAIN proxyNodeMap = DOMAIN latencyMap

\* C18 amended: in every reachable state every key of nodeIndex is a key of
\* latencyMap; a key of latencyMap that is no key of nodeIndex is the name
\* of a settled node latency test, which resolved to a name absent from
\* nodeIndex, and such a test adds that key to latencyMap only.
C18_IndexKeysHaveLatency ==
    /\ DOMAIN proxyNodeMap \subseteq DOMAIN latencyMap
    /\ (DOMAIN latencyMap \ DOMAIN proxyNodeMap) \subseteq TestedKeys
    /\ \A key \in TestedKeys : key \in DOMAIN latencyMap

\* after a refresh, a latency test of X, which no payload names, has
\* failed: latencyMap has an entry for X, nodeIndex has none
C18_Witness ==
    /\ proxyNodeMap # EmptyMap
    /\ "X" \in DOMAIN latencyMap
    /\ latencyMap["X"] = NOT_CONNECTED
    /\ "X" \notin DOMAIN proxyNodeMap
    /\ \E c \in Ids :
           /\ calls[c].kind = "proxyLatencyTest"
           /\ calls[c].arg = "X" /\ calls[c].key = "X"
           /\ calls[c].remote = "failed"

----------------------------------------------------------------------------
(* C19 *)

\* the updateAllProvider calls that have started and not settled
UpdatingAll ==
    {c \in Ids : calls[c].kind = "updateAllProvider" /\ Unsettled(c)}

\* C19 as stated: isAllProviderUpdating is true in every state in which at
\* least one updateAllProvider call has started and not settled, also when
\* two such calls overlap and one settles before the other.
C19_TrueWhileAnyInFlight == (UpdatingAll # {}) => isAllProviderUpdating

\* C19 amended: isAllProviderUpdating is one boolean: every start of an
\* updateAllProvider call sets it to true, every settling of one sets it to
\* false, and nothing else changes it. It is true only while a call is in
\* flight, but when two calls overlap it is false from the moment the first
\* of them settles, while the other is still in flight.
C19_FlagFollowsLastStartOrSettle ==
    [][/\ isAllProviderUpdating' =
              IF Invokes /\ calls'[Len(calls')].kind = "updateAllProvider"
              THEN TRUE
              ELSE IF \E c \in UpdatingAll : calls'[c].pc = "done"
                   THEN FALSE
                   ELSE isAllProviderUpdating
       /\ isAllProviderUpdating' =>
              \E c \in 1..Len(calls') :
                  /\ calls'[c].kind = "updateAllProvider"
                  /\ calls'[c].pc # "done"]_vars

\* of two overlapping updateAllProvider calls one has settled, the other is
\* in flight, and the flag is false
C19_Witness ==
    \E c, d \in Ids :
        /\ calls[c].kind = "updateAllProvider"
        /\ calls[d].kind = "updateAllProvider"
        /\ ~Unsettled(c) /\ Unsettled(d)
        /\ ~isAllProviderUpdating

----------------------------------------------------------------------------
(* C20 *)

\* the latency a refresh of payloads v and p derives for name, which is in
\* its full node set: that of the last node of that name it writes
DerivedLatency(v, p, name) ==
    LET all == allProxies(ProvidersResponses[v], ProxiesResponses[p])
        last == CHOOSE i \in 1..Len(all) :
                    /\ all[i].name = name
                    /\ \A j \in (i + 1)..Len(all) : all[j].name # name
    IN  getLatencyFromProxy(all[last], urlForLatencyTest, TRUE)

\* the node latency tests
LatencyTests == {c \in Ids : calls[c].kind = "proxyLatencyTest"}

\* this step settles test c, which leaves its result in latencyMap
TestWritesLast(c) ==
    (Unsettled(c) /\ calls'[c].pc = "done") =>
        /\ calls'[c].remote = "ok" => latencyMap'[calls[c].key] \in TestDelays
        /\ calls'[c].remote = "failed" =>
               latencyMap'[calls[c].key] = NOT_CONNECTED

\* C20 as stated: of a node latency test for T and a refresh that overlap,
\* the one that completes last determines latencyMap[T]: a test settling
\* after the refresh leaves its own result, and a refresh that was started
\* before the test and publishes after it has settled leaves the latency
\* it derives for T from the fetched payloads.
C20_LastToCompleteWins ==
    [][\A c \in LatencyTests :
          /\ TestWritesLast(c)
          /\ (/\ ~Unsettled(c)
              /\ \E r \in 1..(c - 1) :
                     calls[r].pc = "fetch" /\ calls'[r].fetched = "ok") =>
                 \E v \in ProvidersIdx, p \in ProxiesIdx :
                     /\ PublishesFrom(v, p)
                     /\ calls[c].key \in NodeSet(v, p)
                     /\ latencyMap'[calls[c].key] =
                            DerivedLatency(v, p, calls[c].key)]_vars

\* C20 amended: the last write of latencyMap[T] wins. A node latency test
\* for T that settles leaves its own result (the delay, or NOT_CONNECTED on
\* failure), whatever a refresh or another test wrote before. A refresh
\* that publishes after the test has settled overwrites the test's result
\* with the latency it derives for T only when T is in that refresh's full
\* node set; when T is not, the refresh writes no latencyMap[T] and the
\* test's result stays, although the refresh completed last. No other step
\* changes latencyMap[T].
C20_LastWriteOfNodeWins ==
    [][\A c \in LatencyTests :
          LET T == calls[c].key
          IN  /\ TestWritesLast(c)
              /\ (~Unsettled(c) /\ Refreshes) =>
                     \E v \in ProvidersIdx, p \in ProxiesIdx :
                         /\ PublishesFrom(v, p)
                         /\ latencyMap'[T] =
                                IF T \in NodeSet(v, p)
                                THEN DerivedLatency(v, p, T)
                                ELSE latencyMap[T]
              /\ (/\ ~Unsettled(c)
                  /\ ~Refreshes
                  /\ \A d \in LatencyTests :
                         calls[d].key = T => calls'[d].pc = calls[d].pc) =>
                     latencyMap'[T] = latencyMap[T]]_vars

\* a test of G, started before anything was indexed, has succeeded, and a
\* refresh that fetched G has published after it: latencyMap[G] is the
\* latency derived from the payload, not the test's delay
C20_Witness ==
    \E c, r \in Ids :
        /\ calls[c].kind = "proxyLatencyTest"
        /\ calls[c].key = "G"
        /\ calls[c].remote = "ok" /\ ~Unsettled(c)
        /\ calls[r].kind = "fetchProxies" /\ calls[r].fetched = "ok"
        /\ proxies = sortedProxies(ProxiesResponses[1])
        /\ proxyProviders = sortedProviders(ProvidersResponses[1])
        /\ latencyMap["G"] = DerivedLatency(1, 1, "G")
        /\ latencyMap["G"] \notin TestDelays

====
